---- MODULE Spec2Model ----
(***************************************************************************)
(* Model of the relay backend in src/index.js: the Shiprocket credential   *)
(* cache (getShiprocketToken and the handlers that call it), the Razorpay  *)
(* order and payment-signature handlers, the email handlers, the YouTube   *)
(* subscription handler and the metrics handler.                           *)
(*                                                                         *)
(* Time is counted in whole hours.  One action is one run-to-completion    *)
(* turn of the Node event loop: the code between two awaits that wait for  *)
(* I/O.  A cached-token return of getShiprocketToken is resolved in the    *)
(* same turn as the code that follows the await in the handler.            *)
(***************************************************************************)
EXTENDS Integers, Sequences, FiniteSets, TLC

VARIABLES
  shiprocketToken,   \* src/index.js:65  the cached bearer token, or Null
  tokenExpiryTime,   \* src/index.js:66  the cached expiry, or NoTime (null)
  now,               \* the wall clock (new Date()), in hours
  req,               \* per request slot: the position of the handler running in it
  ev,                \* what the last step did (observation record)
  loginCount,        \* number of fetches sent to the vendor's login endpoint
  callCount,         \* number of getShiprocketToken calls started
  credIssuedAt,      \* vendor issuance time of the cached token, or NoTime
  loginOk,           \* whether some call of getShiprocketToken has logged in successfully
  keySecret,         \* process.env.RAZORPAY_KEY_SECRET
  vp,                \* the last /verify-payment exchange (request and response)
  devVerificationCode  \* process.env.DEV_VERIFICATION_CODE

vars == <<shiprocketToken, tokenExpiryTime, now, req, ev, loginCount, callCount,
          credIssuedAt, loginOk, keySecret, vp, devVerificationCode>>

-----------------------------------------------------------------------------
(* Bounds of the model *)

NumProcs == 2
MaxCalls == 3
EarlyHours == 1
LateHours == 1
MaxDelay == 1

\* Request slots: Procs for the concurrent callers of getShiprocketToken,
\* Slots for the requests in flight when every handler is run.
Procs == 1..NumProcs
Slots == {1, 2}

-----------------------------------------------------------------------------
(* Program constants *)

TokenValidityHours == 23
VendorLifetimeHours == 24

\* The hours at which the model lets something happen: the first hours of the
\* process, and the hours around the expiry of a token stored in them.
Times ==
  (0..EarlyHours) \cup ((TokenValidityHours - 1)..(TokenValidityHours + LateHours))

MaxTime == TokenValidityHours + LateHours

Min(a, b) == IF a < b THEN a ELSE b

-----------------------------------------------------------------------------
(* JavaScript values *)

Null == "<null>"
Absent == "<undefined>"
NoTime == -1
NoTok == "<none>"
NoErr == "<no error>"

Tokens == {"tokA", "tokB"}

\* JavaScript truthiness of a string-or-missing value
Truthy(v) == v \notin {Null, Absent, ""}

\* truthiness of the Date-or-null held by tokenExpiryTime
TruthyTime(t) == t # NoTime

-----------------------------------------------------------------------------
(* The vendor's answers, as the handlers see them *)

\* An answer to the login fetch (src/index.js:79-90): the fetch rejects
\* (net = "error"), or it resolves with an HTTP status (ok = 2xx) and a body
\* that response.json() parses (json = "ok") or not (json = "bad").
NoResp == [net |-> "none", json |-> "none", ok |-> FALSE, token |-> Absent, message |-> Absent]

LoginResponses ==
  { [net |-> "ok", json |-> "ok", ok |-> TRUE, token |-> "tokA", message |-> Absent],
    [net |-> "ok", json |-> "ok", ok |-> TRUE, token |-> "tokB", message |-> Absent],
    [net |-> "ok", json |-> "ok", ok |-> FALSE, token |-> "tokA", message |-> "Invalid credentials"],
    [net |-> "ok", json |-> "ok", ok |-> FALSE, token |-> Absent, message |-> "Invalid credentials"],
    [net |-> "ok", json |-> "ok", ok |-> FALSE, token |-> Absent, message |-> Absent],
    [net |-> "ok", json |-> "ok", ok |-> TRUE, token |-> "", message |-> Absent],
    [net |-> "ok", json |-> "ok", ok |-> TRUE, token |-> Absent, message |-> "Invalid credentials"],
    [net |-> "ok", json |-> "bad", ok |-> TRUE, token |-> Absent, message |-> Absent],
    [net |-> "error", json |-> "none", ok |-> FALSE, token |-> Absent, message |-> Absent] }

-----------------------------------------------------------------------------
(* getShiprocketToken, src/index.js:69-105 *)

\* Variants of the cache test, as a slip in line 72 would make it
CacheValidEarly(tok, exp, currentTime) ==
  Truthy(tok) /\ TruthyTime(exp) /\ currentTime + 1 < exp

CacheValidNoExpiry(tok, exp, currentTime) ==
  Truthy(tok)

CacheValidInclusive(tok, exp, currentTime) ==
  Truthy(tok) /\ TruthyTime(exp) /\ currentTime <= exp

\* line 72: shiprocketToken && tokenExpiryTime && currentTime < tokenExpiryTime
CacheValid(tok, exp, currentTime) ==
  Truthy(tok) /\ TruthyTime(exp) /\ currentTime < exp

\* line 92: if (data.token), reached only when fetch and response.json() succeeded
LoginSucceeds(r) ==
  r.net = "ok" /\ r.json = "ok" /\ Truthy(r.token)

\* lines 95-96: new Date(), then setHours(getHours() + 23)
NewExpiry(t) == t + TokenValidityHours

\* Variants of the store, as slips in lines 92-100 would make it
StoreTokenClear(r, tok) == IF LoginSucceeds(r) THEN r.token ELSE Null
StoreTokenFirst(r, tok) == IF LoginSucceeds(r) /\ ~Truthy(tok) THEN r.token ELSE tok
StoreExpiryKeep(r, exp, t) ==
  IF LoginSucceeds(r) /\ ~TruthyTime(exp) THEN NewExpiry(t) ELSE exp

\* A variant that keeps the expiry of a credential that has not expired yet
StoreExpiryLazy(r, exp, t) ==
  IF LoginSucceeds(r) /\ (exp = NoTime \/ exp <= t) THEN NewExpiry(t) ELSE exp

\* A variant whose failure path forgets the expiry
StoreExpiryReset(r, exp, t) == IF LoginSucceeds(r) THEN NewExpiry(t) ELSE NoTime

\* A variant that renews the expiry whenever the vendor answered the login
StoreExpiryTouch(r, exp, t) == IF r.net = "ok" THEN NewExpiry(t) ELSE exp

\* the cache after a login answer was processed: lines 92-97 write both
\* variables on success, no other path writes them
StoreToken(r, tok) == IF LoginSucceeds(r) THEN r.token ELSE tok
StoreExpiry(r, exp, t) == IF LoginSucceeds(r) THEN NewExpiry(t) ELSE exp

\* A variant of the cached return that renews the validity window
ServedFromCacheSliding(tok, exp, t) == <<tok, NewExpiry(t)>>

\* lines 72-75: the cache after a call was served from it; the branch only
\* returns shiprocketToken
ServedFromCache(tok, exp, t) == <<tok, exp>>

\* line 97: the value getShiprocketToken resolves with after a successful login
LoginReturn(r, tok) == tok

\* lines 99-103: the message of the error getShiprocketToken rejects with
LoginError(r) ==
  IF r.net = "error" THEN "fetch failed"
  ELSE IF r.json = "bad" THEN "Unexpected token in JSON"
  ELSE IF Truthy(r.message) THEN r.message
  ELSE "Failed to authenticate with Shiprocket"

-----------------------------------------------------------------------------
(* Requests *)

Kinds == {"testAuth", "createOrder", "track"}

\* lines 133-137: the properties of the order that the handler tests
MandatoryFields ==
  {"order_id", "order_date", "pickup_location", "billing_customer_name",
   "billing_address", "billing_city", "billing_pincode", "billing_state",
   "billing_country", "billing_email", "billing_phone"}

\* The body of a POST /shiprocket/create-order request, by what lines 133-137
\* test: the mandatory properties that are absent or falsy, and order_items
\* (absent, an empty list, or a list with items).
NoBody == [falsy |-> {}, items |-> "none"]
ValidBody == [falsy |-> {}, items |-> "some"]
Lacking(f) == [falsy |-> {f}, items |-> "some"]
NoPincode == Lacking("billing_pincode")

Payloads == {ValidBody, NoPincode}

\* Every payload that lacks one mandatory property, and some that lack more
OrderPayloads ==
  {ValidBody} \cup {Lacking(f) : f \in MandatoryFields}
    \cup {[falsy |-> {}, items |-> "absent"], [falsy |-> {}, items |-> "empty"],
          [falsy |-> {"order_id", "billing_phone"}, items |-> "some"],
          [falsy |-> MandatoryFields, items |-> "absent"]}

\* lines 133-137, negated: every mandatory property is truthy and order_items
\* is a non-empty list
PayloadValid(body) ==
  /\ \A f \in MandatoryFields : f \notin body.falsy
  /\ body.items # "absent"
  /\ body.items # "empty"

\* The external calls a request has attempted so far
NoCalls ==
  [login |-> 0, order |-> 0, track |-> 0, mail |-> 0, gateway |-> 0, youtube |-> 0]

Called(c, x) == [c EXCEPT ![x] = @ + 1]

\* No answer of the vendor to an order-creation or tracking fetch (yet)
NoAnswer == [net |-> "none", json |-> "none", status |-> 0]

\* The position of a handler: where it waits (pc), the request it serves, and
\* what it has settled for its answer (status, message), from the try block or
\* from the catch block.
Idle ==
  [pc |-> "idle", kind |-> "none", body |-> NoBody, waited |-> 0, status |-> 0,
   from |-> "none", message |-> "", vendor |-> NoAnswer, calls |-> NoCalls]

\* No amount read from a request body, none handed to the payment gateway
Unread == [t |-> "none", neg |-> FALSE, n |-> 0, d |-> 1]
NotSent == [t |-> "none", neg |-> FALSE, m |-> <<>>, e |-> 0]

\* No property read from a request body
NoValue == [t |-> "none", s |-> <<>>]

EvNone ==
  [op |-> "none", kind |-> "none", tok0 |-> NoTok, exp0 |-> NoTime,
   logins |-> 0, ret |-> NoTok, err |-> NoErr, sent |-> NoTok, status |-> 0,
   emails |-> 0, expOut |-> NoTime, resp |-> NoResp,
   decided |-> 0, message |-> "", vendor |-> NoAnswer, mailRet |-> "none", delivered |-> FALSE,
   calls |-> NoCalls, amount |-> Unread, options |-> NotSent,
   devMode |-> "none", code |-> NoValue, bypass |-> FALSE, subscribed |-> "none",
   email |-> NoValue, details |-> "none"]

\* The vendor's answers to the order-creation and tracking fetches
\* (lines 152-161, 272-280): rejected fetch, unparsable body, or a parsed
\* body with an HTTP status.
CallResponses ==
  { [net |-> "error", json |-> "none", status |-> 0],
    [net |-> "ok", json |-> "bad", status |-> 200],
    [net |-> "ok", json |-> "ok", status |-> 200],
    [net |-> "ok", json |-> "ok", status |-> 422],
    [net |-> "ok", json |-> "bad", status |-> 502] }

CallThrows(r) == r.net = "error" \/ r.json = "bad"
ResponseOk(r) == r.status >= 200 /\ r.status <= 299

\* A variant that reports the expiry read before getShiprocketToken was awaited
TokenExpiresAtEntry(exp, e) == e.exp0

\* line 115: tokenExpiresAt: tokenExpiryTime, read when the response is built;
\* exp is the cached expiry at that moment
TokenExpiresAt(exp, e) == exp

\* The handler's code after `await getShiprocketToken()` resolved with `token`,
\* in a request that has made the calls c:
\*   /shiprocket/test-auth     lines 111-116
\*   /shiprocket/create-order  lines 130-159
\*   /shiprocket/track/:id     lines 263-278
\* Gives the request's next position and the observation of the step.
AfterToken(c, kind, body, token, exp, e) ==
  CASE kind = "testAuth" ->
         <<Idle, [e EXCEPT !.status = 200, !.ret = token,
                           !.expOut = TokenExpiresAt(exp, e), !.calls = c,
                           !.message = "Shiprocket authentication successful"]>>
    [] kind = "createOrder" /\ ~PayloadValid(body) ->
         <<[Idle EXCEPT !.pc = "mail", !.kind = kind, !.body = body, !.status = 400,
                        !.from = "try", !.message = "Missing required order information",
                        !.calls = Called(c, "mail")],
           [e EXCEPT !.ret = token, !.emails = 1, !.decided = 400,
                     !.calls = Called(c, "mail")]>>
    [] kind = "createOrder" /\ PayloadValid(body) ->
         <<[Idle EXCEPT !.pc = "order", !.kind = kind, !.body = body,
                        !.calls = Called(c, "order")],
           [e EXCEPT !.ret = token, !.sent = token, !.calls = Called(c, "order")]>>
    [] kind = "track" ->
         <<[Idle EXCEPT !.pc = "track", !.kind = kind, !.body = body,
                        !.calls = Called(c, "track")],
           [e EXCEPT !.ret = token, !.sent = token, !.calls = Called(c, "track")]>>

\* A variant of the catch blocks that calls getShiprocketToken a second time
AfterTokenErrorRetry(c, kind, body, msg, e) ==
  <<[Idle EXCEPT !.pc = "login", !.kind = kind, !.body = body,
                 !.calls = Called(c, "login")],
    [e EXCEPT !.err = msg, !.logins = 1, !.calls = Called(c, "login")]>>

\* A variant of the catch blocks that answers as if nothing had failed
AfterTokenErrorQuiet(c, kind, body, msg, e) ==
  <<Idle, [e EXCEPT !.err = msg, !.status = 200, !.calls = c]>>

\* The handler's catch block after getShiprocketToken rejected with `msg`:
\*   test-auth lines 117-123, create-order lines 183-201, track lines 286-293
AfterTokenError(c, kind, body, msg, e) ==
  CASE kind = "createOrder" ->
         <<[Idle EXCEPT !.pc = "mail", !.kind = kind, !.body = body, !.status = 500,
                        !.from = "catch", !.message = "Error creating Shiprocket order",
                        !.calls = Called(c, "mail")],
           [e EXCEPT !.err = msg, !.emails = 1, !.decided = 500,
                     !.calls = Called(c, "mail")]>>
    [] OTHER ->
         <<Idle, [e EXCEPT !.err = msg, !.status = 500, !.calls = c,
                           !.message = IF kind = "testAuth"
                                       THEN "Shiprocket authentication failed"
                                       ELSE "Error tracking shipment"]>>

\* A variant of the non-success answer that always says 500
VendorFailureStatus500(r) == 500

\* line 177: res.status(response.status)
VendorFailureStatus(r) == r.status

\* A variant of sendShiprocketFailureEmail that lets a failed send escape
MailResultRaise(sent) == IF sent THEN "true" ELSE "throw"

\* lines 250-256: what sendShiprocketFailureEmail settles with when the send
\* (or the formatting before it) succeeded or failed
MailResult(sent) == IF sent THEN "true" ELSE "false"

\* lines 280-293: the tracking handler answers 200 for every body it could
\* parse and 500 for an exception
TrackStatus(r) == IF CallThrows(r) THEN 500 ELSE 200

-----------------------------------------------------------------------------
(* POST /verify-payment, src/index.js:728-768 *)

\* A JavaScript value of the request body or the environment: a string (a
\* sequence of characters) or undefined.
Str(x) == [t |-> "string", s |-> x]
Undef == [t |-> "undefined", s |-> <<>>]

\* String(v), as the + operator applies it to its operands
JsStr(v) == IF v.t = "undefined" THEN <<"u", "n", "d", "e", "f", "i", "n", "e", "d">> ELSE v.s

HexDigits == <<"0", "1", "2", "3", "4", "5", "6", "7", "8", "9", "a", "b", "c", "d", "e", "f">>

Alphabet ==
  HexDigits \o <<"A", "B", "C", "D", "E", "F", "o", "p", "k", "s", "|", "u", "n", "i">>

Code(c) == CHOOSE i \in 1..Len(Alphabet) : Alphabet[i] = c

RECURSIVE Mix(_, _)
Mix(h, str) ==
  IF str = <<>> THEN h ELSE Mix((h * 31 + Code(Head(str))) % 256, Tail(str))

\* lines 738-741: createHmac("sha256", key).update(msg).digest("hex"), with the
\* digest shortened to one byte: a keyed hash of the message, written as
\* lower-case hexadecimal digits.
HmacSha256Hex(key, msg) ==
  LET h == Mix(Mix(7, key), msg)
  IN <<HexDigits[(h \div 16) + 1], HexDigits[(h % 16) + 1]>>

\* A variant of the signed text, as a slip in line 737 would make it
VerifySignNoSeparator(orderId, paymentId) == JsStr(orderId) \o JsStr(paymentId)

\* A variant of the signed text that depends on the time of the call
VerifySignStamped(orderId, paymentId) ==
  JsStr(orderId) \o <<"|">> \o JsStr(paymentId) \o (IF now = 0 THEN <<>> ELSE <<"1">>)

\* line 737: razorpay_order_id + "|" + razorpay_payment_id
VerifySign(orderId, paymentId) == JsStr(orderId) \o <<"|">> \o JsStr(paymentId)

\* line 743: expectedSignature === razorpay_signature
IsAuthentic(expected, signature) == Str(expected) = signature

\* a variant of the answer in which a mismatch is thrown to the catch block
VerifyStatusThrow(authentic) == IF authentic THEN 200 ELSE 500

\* lines 745-759: the status of the verdict
VerifyStatus(authentic) == IF authentic THEN 200 ELSE 400

NoVerify ==
  [op |-> "none", orderId |-> Undef, paymentId |-> Undef, signature |-> Undef,
   status |-> 0, success |-> FALSE, message |-> "", orderOut |-> Undef, paymentOut |-> Undef]

\* The whole handler, lines 729-767: createHmac throws a TypeError when the key
\* is undefined and the catch block answers 500.
VerifyResponse(orderId, paymentId, signature, secret) ==
  LET q == [NoVerify EXCEPT !.op = "verify", !.orderId = orderId,
                            !.paymentId = paymentId, !.signature = signature]
  IN IF secret.t = "undefined"
     THEN [q EXCEPT !.status = 500, !.message = "Internal server error during verification"]
     ELSE LET expectedSignature == HmacSha256Hex(secret.s, VerifySign(orderId, paymentId))
              isAuthentic == IsAuthentic(expectedSignature, signature)
          IN IF VerifyStatus(isAuthentic) = 200
             THEN [q EXCEPT !.status = 200, !.success = TRUE,
                            !.message = "Payment verification successful",
                            !.orderOut = orderId, !.paymentOut = paymentId]
             ELSE [q EXCEPT !.status = VerifyStatus(isAuthentic),
                            !.message = IF VerifyStatus(isAuthentic) = 400
                                        THEN "Payment verification failed"
                                        ELSE "Internal server error during verification"]

\* Inputs of the verification
Secrets == {Undef, Str(<<"k">>), Str(<<"s", "k">>)}
OrderIds == {Undef, Str(<<"o">>), Str(<<"o", "|">>), Str(<<"o", "1">>)}
PaymentIds == {Undef, Str(<<"p">>), Str(<<"|", "p">>)}
SigDigits == {HexDigits[i] : i \in 1..Len(HexDigits)} \cup {"A", "B", "C", "D", "E", "F"}
Signatures ==
  {Undef, Str(<<>>)} \cup {Str(<<a, b>>) : a \in SigDigits, b \in SigDigits}
    \cup {Str(<<a, b, "0">>) : a \in {"0", "a"}, b \in SigDigits}

-----------------------------------------------------------------------------
(* POST /create-order, src/index.js:699-725: the amount *)

\* JavaScript numbers are IEEE 754 binary64.  A finite number is m * 2^e with
\* a significand m of at most SignificandBits bits, kept here as a natural
\* number in limbs of LimbBits bits, least significant limb first, without
\* leading zero limbs (so that every natural has one representation).
SignificandBits == 53
LimbBits == 15
Base == 2^LimbBits

RECURSIVE BigOf(_)
BigOf(n) == IF n = 0 THEN <<>> ELSE <<n % Base>> \o BigOf(n \div Base)

RECURSIVE BigMul(_, _, _)
\* b * k + carry, for 0 <= k <= Base
BigMul(b, k, carry) ==
  IF b = <<>> THEN BigOf(carry)
  ELSE LET v == Head(b) * k + carry
       IN <<v % Base>> \o BigMul(Tail(b), k, v \div Base)

RECURSIVE BigStrip(_)
BigStrip(b) ==
  IF b = <<>> THEN <<>>
  ELSE IF b[Len(b)] = 0 THEN BigStrip(SubSeq(b, 1, Len(b) - 1))
  ELSE b

RECURSIVE BigDivMod(_, _)
\* <<b div d, b mod d>>, for 0 < d <= Base (the quotient may have leading zeros)
BigDivMod(b, d) ==
  IF b = <<>> THEN <<(<<>>), 0>>
  ELSE LET hi == BigDivMod(Tail(b), d)
           cur == hi[2] * Base + Head(b)
       IN <<(<<cur \div d>>) \o hi[1], cur % d>>

BigDiv(b, d) == BigStrip(BigDivMod(b, d)[1])
BigMod(b, d) == BigDivMod(b, d)[2]

RECURSIVE BigLess(_, _)
BigLess(a, b) ==
  IF Len(a) # Len(b) THEN Len(a) < Len(b)
  ELSE IF a = <<>> THEN FALSE
  ELSE IF a[Len(a)] # b[Len(b)] THEN a[Len(a)] < b[Len(b)]
  ELSE BigLess(SubSeq(a, 1, Len(a) - 1), SubSeq(b, 1, Len(b) - 1))

RECURSIVE BigShift(_, _)
\* b * 2^k
BigShift(b, k) == IF k = 0 THEN b ELSE BigShift(BigMul(b, 2, 0), k - 1)

BigOdd(b) == b # <<>> /\ Head(b) % 2 = 1

\* q + 1 when the remainder r of a division by d is more than half of d, or
\* exactly half with q odd: round to nearest, ties to even
RoundHalfEven(q, r, d) ==
  IF 2 * r > d \/ (2 * r = d /\ BigOdd(q)) THEN BigMul(q, 1, 1) ELSE q

\* 2^SignificandBits and 2^(SignificandBits - 1)
SignificandEnd == BigShift(<<1>>, SignificandBits)
SignificandMin == BigShift(<<1>>, SignificandBits - 1)

\* The values of a number
NaN == [t |-> "NaN", neg |-> FALSE, m |-> <<>>, e |-> 0]
Infinity == [t |-> "Infinity", neg |-> FALSE, m |-> <<>>, e |-> 0]
Finite(neg, m, e) == [t |-> "finite", neg |-> neg, m |-> m, e |-> e]

\* The binary64 nearest to m * 2^e: the bits beyond the significand are
\* dropped in one rounding step.
RoundToDouble(neg, m, e) ==
  IF BigLess(m, SignificandEnd) THEN Finite(neg, m, e)
  ELSE LET drop == CHOOSE k \in 1..LimbBits :
                     /\ BigLess(BigDiv(m, 2^k), SignificandEnd)
                     /\ ~BigLess(BigDiv(m, 2^(k-1)), SignificandEnd)
           q == RoundHalfEven(BigDiv(m, 2^drop), BigMod(m, 2^drop), 2^drop)
       IN Finite(neg, q, e + drop)

RECURSIVE ParseScaled(_, _, _, _)
\* JSON.parse of the decimal n/d (bodyParser.json, line 46), n > 0: the
\* binary64 nearest to it.  N is n * 2^s, scaled up until N/d has a full
\* significand.
ParseScaled(neg, N, d, s) ==
  IF BigLess(N, BigMul(SignificandMin, d, 0))
  THEN ParseScaled(neg, BigMul(N, 2, 0), d, s + 1)
  ELSE LET dm == BigDivMod(N, d)
       IN Finite(neg, RoundHalfEven(BigStrip(dm[1]), dm[2], d), 0 - s)

\* The `amount` of a request body: absent, a JSON number written as the
\* decimal n/d (d a power of ten), or a number too large for binary64, which
\* JSON.parse reads as Infinity.
NoAmount == [t |-> "undefined", neg |-> FALSE, n |-> 0, d |-> 1]
Decimal(n, d) == [t |-> "number", neg |-> FALSE, n |-> n, d |-> d]
Minus(a) == [a EXCEPT !.neg = TRUE]
Huge == [t |-> "huge", neg |-> FALSE, n |-> 0, d |-> 1]

\* The number a body's amount is when the handler reads it
ToNumber(a) ==
  CASE a.t = "undefined" -> NaN
    [] a.t = "huge" -> Infinity
    [] a.t = "number" /\ a.n = 0 -> Finite(a.neg, <<>>, 0)
    [] a.t = "number" /\ a.n > 0 -> ParseScaled(a.neg, BigOf(a.n), a.d, 0)

\* x * k for a number x and a small natural k >= 1, which binary64 holds exactly
Multiply(x, k) ==
  IF x.t # "finite" \/ x.m = <<>> THEN x
  ELSE RoundToDouble(x.neg, BigMul(x.m, k, 0), x.e)

PaisePerRupee == 100

\* line 704: amount * 100
OrderAmount(a) == Multiply(ToNumber(a), PaisePerRupee)

RECURSIVE Reduced(_, _)
\* m * 2^e with e raised to zero or m made odd: one form for every value
Reduced(m, e) ==
  IF m = <<>> THEN <<m, 0>>
  ELSE IF e < 0 /\ ~BigOdd(m) THEN Reduced(BigDiv(m, 2), e + 1)
  ELSE IF e > 0 THEN Reduced(BigMul(m, 2, 0), e - 1)
  ELSE <<m, e>>

\* The number x is a whole number; it is the natural k (with x's sign)
IsWhole(x) == x.t = "finite" /\ Reduced(x.m, x.e)[2] = 0
IsInteger(x, k) == x.t = "finite" /\ Reduced(x.m, x.e) = <<BigOf(k), 0>>

\* The amounts of the requests
Amounts ==
  { NoAmount, Huge, Decimal(0, 1), Decimal(500, 1), Minus(Decimal(5, 1)),
    Decimal(1999, 100), Decimal(105, 10), Decimal(7, 100), Decimal(1005, 1000) }

\* options.amount for each of these amounts
OrderAmounts == [a \in Amounts |-> OrderAmount(a)]

-----------------------------------------------------------------------------
(* Initial state: lines 65-66, a freshly started process *)

Init ==
  /\ shiprocketToken = Null
  /\ tokenExpiryTime = NoTime
  /\ now = 0
  /\ req = [p \in Procs |-> Idle]
  /\ ev = EvNone
  /\ loginCount = 0
  /\ callCount = 0
  /\ credIssuedAt = NoTime
  /\ loginOk = FALSE
  /\ keySecret = Str(<<"k">>)
  /\ vp = NoVerify
  /\ devVerificationCode = Undef

-----------------------------------------------------------------------------
(* Actions *)

\* Time passes, up to the next hour of Times.  A login fetch in flight has
\* waited that much longer (counted up to MaxDelay).
NextTime(t) == CHOOSE u \in Times : u > t /\ \A v \in Times : v > t => u <= v

Tick ==
  /\ now < MaxTime
  /\ now' = NextTime(now)
  /\ req' = [p \in Procs |->
               IF req[p].pc = "login"
               THEN [req[p] EXCEPT !.waited = Min(MaxDelay, req[p].waited + (now' - now))]
               ELSE req[p]]
  /\ ev' = EvNone
  /\ UNCHANGED <<shiprocketToken, tokenExpiryTime, loginCount, callCount, credIssuedAt, loginOk, keySecret, vp, devVerificationCode>>

\* A request arrives and its handler runs up to its first wait for I/O:
\* the call of getShiprocketToken (lines 71-88) and, when the cached token
\* is returned, the handler's code after the await.
Start(p, kind, body) ==
  /\ req[p].pc = "idle"
  /\ \A q \in Procs : q < p => req[q].pc # "idle"   \* a request takes the first free slot
  /\ callCount < MaxCalls
  /\ callCount' = callCount + 1
  /\ LET e0 == [EvNone EXCEPT !.op = "call", !.kind = kind,
                              !.tok0 = shiprocketToken, !.exp0 = tokenExpiryTime]
     IN IF CacheValid(shiprocketToken, tokenExpiryTime, now)
        THEN LET cache == ServedFromCache(shiprocketToken, tokenExpiryTime, now)
                 out == AfterToken(NoCalls, kind, body, cache[1], cache[2], e0)
             IN /\ req' = [req EXCEPT ![p] = out[1]]
                /\ ev' = out[2]
                /\ loginCount' = loginCount
                /\ shiprocketToken' = cache[1]
                /\ tokenExpiryTime' = cache[2]
        ELSE /\ req' = [req EXCEPT ![p] = [Idle EXCEPT !.pc = "login", !.kind = kind,
                                                       !.body = body,
                                                       !.calls = Called(NoCalls, "login")]]
             /\ ev' = [e0 EXCEPT !.logins = 1, !.calls = Called(NoCalls, "login")]
             /\ loginCount' = loginCount + 1
             /\ UNCHANGED <<shiprocketToken, tokenExpiryTime>>
  /\ UNCHANGED <<now, credIssuedAt, loginOk, keySecret, vp, devVerificationCode>>

\* The login fetch settled with answer r, which the vendor produced `delay`
\* hours ago: the rest of getShiprocketToken (lines 90-104) and the handler's
\* code after the await.
LoginDone(p, r, delay) ==
  /\ req[p].pc = "login"
  /\ delay <= req[p].waited
  /\ LET e0 == [EvNone EXCEPT !.op = "login", !.kind = req[p].kind,
                              !.tok0 = shiprocketToken, !.exp0 = tokenExpiryTime,
                              !.resp = r]
         tok == StoreToken(r, shiprocketToken)
         exp == StoreExpiry(r, tokenExpiryTime, now)
         out == IF LoginSucceeds(r)
                THEN AfterToken(req[p].calls, req[p].kind, req[p].body,
                                LoginReturn(r, tok), exp, e0)
                ELSE AfterTokenError(req[p].calls, req[p].kind, req[p].body,
                                     LoginError(r), e0)
     IN /\ shiprocketToken' = tok
        /\ tokenExpiryTime' = exp
        /\ credIssuedAt' = IF LoginSucceeds(r) THEN now - delay ELSE credIssuedAt
        /\ loginOk' = (loginOk \/ LoginSucceeds(r))
        /\ req' = [req EXCEPT ![p] = out[1]]
        /\ ev' = out[2]
  /\ UNCHANGED <<now, loginCount, callCount, keySecret, vp, devVerificationCode>>

\* The order-creation fetch settled with answer r: lines 161-201.
OrderDone(p, r) ==
  /\ req[p].pc = "order"
  /\ LET e0 == [EvNone EXCEPT !.op = "order", !.kind = req[p].kind, !.vendor = r]
         c == Called(req[p].calls, "mail")
     IN IF CallThrows(r)
        THEN /\ req' = [req EXCEPT ![p].pc = "mail", ![p].status = 500, ![p].from = "catch",
                                   ![p].vendor = r,
                                   ![p].message = "Error creating Shiprocket order",
                                   ![p].calls = c]
             /\ ev' = [e0 EXCEPT !.emails = 1, !.decided = 500, !.calls = c]
        ELSE IF ResponseOk(r)
        THEN /\ req' = [req EXCEPT ![p] = Idle]
             /\ ev' = [e0 EXCEPT !.status = 200, !.calls = req[p].calls,
                                 !.message = "Order created successfully on Shiprocket"]
        ELSE /\ req' = [req EXCEPT ![p].pc = "mail", ![p].status = VendorFailureStatus(r),
                                   ![p].from = "try", ![p].vendor = r,
                                   ![p].message = "Failed to create order on Shiprocket",
                                   ![p].calls = c]
             /\ ev' = [e0 EXCEPT !.emails = 1, !.decided = VendorFailureStatus(r),
                                 !.calls = c]
  /\ UNCHANGED <<shiprocketToken, tokenExpiryTime, now, loginCount, callCount, credIssuedAt, loginOk, keySecret, vp, devVerificationCode>>

\* sendShiprocketFailureEmail settled and the handler goes on after its await:
\* with true or false it answers what it had settled (lines 146-149, 177-181,
\* 196-200); a rejection inside the try block would enter the catch block
\* (lines 183-200), one inside the catch block would leave the request
\* unanswered.
MailDone(p, sent) ==
  /\ req[p].pc = "mail"
  /\ LET e0 == [EvNone EXCEPT !.op = "mail", !.kind = req[p].kind,
                              !.mailRet = MailResult(sent), !.delivered = sent,
                              !.vendor = req[p].vendor]
         c == Called(req[p].calls, "mail")
     IN IF MailResult(sent) \in {"true", "false"}
        THEN /\ req' = [req EXCEPT ![p] = Idle]
             /\ ev' = [e0 EXCEPT !.status = req[p].status, !.message = req[p].message,
                                 !.calls = req[p].calls]
        ELSE IF req[p].from = "try"
        THEN /\ req' = [req EXCEPT ![p].status = 500, ![p].from = "catch",
                                   ![p].message = "Error creating Shiprocket order",
                                   ![p].calls = c]
             /\ ev' = [e0 EXCEPT !.emails = 1, !.decided = 500, !.calls = c]
        ELSE /\ req' = [req EXCEPT ![p] = Idle]
             /\ ev' = [e0 EXCEPT !.calls = req[p].calls]
  /\ UNCHANGED <<shiprocketToken, tokenExpiryTime, now, loginCount, callCount, credIssuedAt, loginOk, keySecret, vp, devVerificationCode>>

\* The tracking fetch settled with answer r: lines 280-293.
TrackDone(p, r) ==
  /\ req[p].pc = "track"
  /\ req' = [req EXCEPT ![p] = Idle]
  /\ ev' = [EvNone EXCEPT !.op = "track", !.kind = req[p].kind,
                          !.status = TrackStatus(r), !.vendor = r,
                          !.calls = req[p].calls,
                          !.message = IF CallThrows(r) THEN "Error tracking shipment" ELSE ""]
  /\ UNCHANGED <<shiprocketToken, tokenExpiryTime, now, loginCount, callCount, credIssuedAt, loginOk, keySecret, vp, devVerificationCode>>

\* The requests the shipment routes accept: only create-order reads a body.
Request(p, kind, body) ==
  /\ kind # "createOrder" => body = ValidBody
  /\ Start(p, kind, body)

Next ==
  \/ Tick
  \/ \E p \in Slots, kind \in Kinds, body \in Payloads : Request(p, kind, body)
  \/ \E p \in Slots, r \in LoginResponses : LoginDone(p, r, 0)
  \/ \E p \in Slots, r \in CallResponses : OrderDone(p, r)
  \/ \E p \in Slots, sent \in BOOLEAN : MailDone(p, sent)
  \/ \E p \in Slots, r \in CallResponses : TrackDone(p, r)

\* Every shipment handler, with requests overlapping.  The handlers do not see
\* how long an answer travelled, so the answers are taken as processed in the
\* hour the vendor produced them; SpecBurst lets them be late.
Spec == Init /\ [][Next]_vars

\* POST /verify-payment: the handler has no await, it runs in one turn.
VerifyPayment(orderId, paymentId, signature) ==
  /\ vp.op = "none"
  /\ vp' = VerifyResponse(orderId, paymentId, signature, keySecret)
  /\ UNCHANGED <<shiprocketToken, tokenExpiryTime, now, req, ev, loginCount, callCount,
                 credIssuedAt, loginOk, keySecret, devVerificationCode>>

\* The exchange is over: the request and its response are gone.
VerifyForget ==
  /\ vp.op = "verify"
  /\ vp' = NoVerify
  /\ UNCHANGED <<shiprocketToken, tokenExpiryTime, now, req, ev, loginCount, callCount,
                 credIssuedAt, loginOk, keySecret, devVerificationCode>>

\* Payment verification alone, in a process started with any key secret.
InitVerify ==
  /\ shiprocketToken = Null
  /\ tokenExpiryTime = NoTime
  /\ now = 0
  /\ req = [p \in Procs |-> Idle]
  /\ ev = EvNone
  /\ loginCount = 0
  /\ callCount = 0
  /\ credIssuedAt = NoTime
  /\ loginOk = FALSE
  /\ keySecret \in Secrets
  /\ vp = NoVerify
  /\ devVerificationCode = Undef

NextVerify ==
  \/ \E o \in OrderIds, pm \in PaymentIds, sg \in Signatures : VerifyPayment(o, pm, sg)
  \/ VerifyForget

SpecVerify == InitVerify /\ [][NextVerify]_vars

\* A later /verify-payment request, the previous exchange still on record: the
\* observation tells whether it repeats the previous request's fields.
VerifyInputs(q) == <<q.orderId, q.paymentId, q.signature>>
VerifyOutcome(q) == <<q.status, q.success, q.message, q.orderOut, q.paymentOut>>

VerifyAgain(orderId, paymentId, signature) ==
  /\ vp.op = "verify"
  /\ vp' = VerifyResponse(orderId, paymentId, signature, keySecret)
  /\ ev' = [EvNone EXCEPT !.op = IF <<orderId, paymentId, signature>> = VerifyInputs(vp)
                                 THEN "reverify" ELSE "verify"]
  /\ UNCHANGED <<shiprocketToken, tokenExpiryTime, now, req, loginCount, callCount,
                 credIssuedAt, loginOk, keySecret, devVerificationCode>>

\* Payment verifications among the shipment requests of one slot, in a process
\* started with any key secret.
MixedSecrets == {Undef, Str(<<"k">>)}
MixedOrderIds == {Undef, Str(<<"o">>)}
MixedPaymentIds == {Str(<<"p">>)}
MixedSignatures ==
  {Str(HmacSha256Hex(<<"k">>, JsStr(o) \o <<"|">> \o JsStr(pm))) :
     o \in MixedOrderIds, pm \in MixedPaymentIds}

InitMixed ==
  /\ shiprocketToken = Null
  /\ tokenExpiryTime = NoTime
  /\ now = 0
  /\ req = [p \in Procs |-> Idle]
  /\ ev = EvNone
  /\ loginCount = 0
  /\ callCount = 0
  /\ credIssuedAt = NoTime
  /\ loginOk = FALSE
  /\ keySecret \in MixedSecrets
  /\ vp = NoVerify
  /\ devVerificationCode = Undef

NextMixed ==
  \/ Tick
  \/ \E kind \in Kinds : Request(1, kind, ValidBody)
  \/ \E r \in LoginResponses : LoginDone(1, r, 0)
  \/ \E r \in CallResponses : OrderDone(1, r)
  \/ \E sent \in BOOLEAN : MailDone(1, sent)
  \/ \E r \in CallResponses : TrackDone(1, r)
  \/ \E o \in MixedOrderIds, pm \in MixedPaymentIds, sg \in MixedSignatures :
       VerifyPayment(o, pm, sg)
  \/ \E o \in MixedOrderIds, pm \in MixedPaymentIds, sg \in MixedSignatures :
       VerifyAgain(o, pm, sg)

SpecMixed == InitMixed /\ [][NextMixed]_vars

\* POST /create-order, lines 699-725: the handler builds the options and waits
\* for razorpay.orders.create.
PayStart(p, amount) ==
  /\ req[p].pc = "idle"
  /\ req' = [req EXCEPT ![p] = [Idle EXCEPT !.pc = "gateway", !.kind = "payOrder",
                                            !.calls = Called(NoCalls, "gateway")]]
  /\ ev' = [EvNone EXCEPT !.op = "start", !.kind = "payOrder",
                          !.amount = amount, !.options = OrderAmounts[amount],
                          !.calls = Called(NoCalls, "gateway")]
  /\ UNCHANGED <<shiprocketToken, tokenExpiryTime, now, loginCount, callCount,
                 credIssuedAt, loginOk, keySecret, vp, devVerificationCode>>

\* razorpay.orders.create settled: lines 712-723.
PayDone(p, created) ==
  /\ req[p].pc = "gateway"
  /\ req' = [req EXCEPT ![p] = Idle]
  /\ ev' = [EvNone EXCEPT !.op = "gateway", !.kind = req[p].kind,
                          !.status = IF created THEN 200 ELSE 500,
                          !.message = IF created THEN "" ELSE "Failed to create order",
                          !.calls = req[p].calls]
  /\ UNCHANGED <<shiprocketToken, tokenExpiryTime, now, loginCount, callCount,
                 credIssuedAt, loginOk, keySecret, vp, devVerificationCode>>

\* POST /send-email, lines 350-366: the handler waits for transporter.sendMail.
SendEmail(p) ==
  /\ req[p].pc = "idle"
  /\ req' = [req EXCEPT ![p] = [Idle EXCEPT !.pc = "smtp", !.kind = "sendEmail",
                                            !.calls = Called(NoCalls, "mail")]]
  /\ ev' = [EvNone EXCEPT !.op = "start", !.kind = "sendEmail", !.emails = 1,
                          !.calls = Called(NoCalls, "mail")]
  /\ UNCHANGED <<shiprocketToken, tokenExpiryTime, now, loginCount, callCount,
                 credIssuedAt, loginOk, keySecret, vp, devVerificationCode>>

\* transporter.sendMail settled: lines 362-365.
SendEmailDone(p, sent) ==
  /\ req[p].pc = "smtp"
  /\ req' = [req EXCEPT ![p] = Idle]
  /\ ev' = [EvNone EXCEPT !.op = "smtp", !.kind = req[p].kind,
                          !.status = IF sent THEN 200 ELSE 500,
                          !.message = IF sent THEN "Email sent successfully!"
                                      ELSE "Email sending failed!",
                          !.calls = req[p].calls]
  /\ UNCHANGED <<shiprocketToken, tokenExpiryTime, now, loginCount, callCount,
                 credIssuedAt, loginOk, keySecret, vp, devVerificationCode>>

\* POST /verify-youtube-subscription, lines 297-347.
\* devMode as the body gives it: the boolean true, the boolean false, the
\* string "true", or nothing.
DevModes == {"true", "false", "'true'", "undefined"}
DevCodes == {Undef, Str(<<"d", "e", "v">>)}
VerificationCodes == {Undef, Str(<<"d", "e", "v">>), Str(<<"x">>)}

\* line 301: devMode === true && verificationCode === process.env.DEV_VERIFICATION_CODE
DevBypass(devMode, code, configured) ==
  devMode = "true" /\ code = configured

\* The answers of the subscriptions fetch (lines 311-317): rejected fetch,
\* unparsable body, a body with `error`, or a body whose `items` are absent,
\* hold the channel, do not hold it, or hold an item without a snippet.
YoutubeResponses ==
  { [net |-> "error", json |-> "none", error |-> FALSE, items |-> "absent"],
    [net |-> "ok", json |-> "bad", error |-> FALSE, items |-> "absent"],
    [net |-> "ok", json |-> "ok", error |-> TRUE, items |-> "absent"],
    [net |-> "ok", json |-> "ok", error |-> FALSE, items |-> "absent"],
    [net |-> "ok", json |-> "ok", error |-> FALSE, items |-> "match"],
    [net |-> "ok", json |-> "ok", error |-> FALSE, items |-> "other"],
    [net |-> "ok", json |-> "ok", error |-> FALSE, items |-> "malformed"] }

\* lines 319-346: the status and the isSubscribed of the answer
YoutubeAnswer(r) ==
  CASE r.net = "error" \/ r.json = "bad" -> <<500, "none">>
    [] r.net = "ok" /\ r.json = "ok" /\ r.error -> <<400, "none">>
    [] r.net = "ok" /\ r.json = "ok" /\ ~r.error /\ r.items = "absent" -> <<200, "undefined">>
    [] r.net = "ok" /\ r.json = "ok" /\ ~r.error /\ r.items = "match" -> <<200, "true">>
    [] r.net = "ok" /\ r.json = "ok" /\ ~r.error /\ r.items = "other" -> <<200, "false">>
    [] r.net = "ok" /\ r.json = "ok" /\ ~r.error /\ r.items = "malformed" -> <<500, "none">>

\* lines 297-315: the bypass, or the handler waits for the subscriptions fetch
YoutubeStart(p, devMode, code) ==
  /\ req[p].pc = "idle"
  /\ LET e0 == [EvNone EXCEPT !.op = "start", !.kind = "youtube",
                              !.devMode = devMode, !.code = code]
     IN IF DevBypass(devMode, code, devVerificationCode)
        THEN /\ req' = [req EXCEPT ![p] = Idle]
             /\ ev' = [e0 EXCEPT !.status = 200, !.bypass = TRUE, !.subscribed = "true",
                                 !.message = "Development mode: Subscription verified! 10% discount applied."]
        ELSE /\ req' = [req EXCEPT ![p] = [Idle EXCEPT !.pc = "youtube", !.kind = "youtube",
                                                       !.calls = Called(NoCalls, "youtube")]]
             /\ ev' = [e0 EXCEPT !.calls = Called(NoCalls, "youtube")]
  /\ UNCHANGED <<shiprocketToken, tokenExpiryTime, now, loginCount, callCount,
                 credIssuedAt, loginOk, keySecret, vp, devVerificationCode>>

\* The subscriptions fetch settled with answer r: lines 317-346.
YoutubeDone(p, r) ==
  /\ req[p].pc = "youtube"
  /\ req' = [req EXCEPT ![p] = Idle]
  /\ ev' = [EvNone EXCEPT !.op = "youtube", !.kind = req[p].kind,
                          !.status = YoutubeAnswer(r)[1],
                          !.subscribed = YoutubeAnswer(r)[2],
                          !.calls = req[p].calls]
  /\ UNCHANGED <<shiprocketToken, tokenExpiryTime, now, loginCount, callCount,
                 credIssuedAt, loginOk, keySecret, vp, devVerificationCode>>

\* The customer-email routes: /send-order-confirmation (lines 369-533),
\* /send-abandoned-order-email (536-697), /agent_to_customer (1545-1814),
\* /send-advance-payment-confirmation (1816-2089).
CustomerRoutes ==
  {"orderConfirmation", "abandonedOrder", "agentToCustomer", "advancePayment"}

CustomerEmails == {Undef, Str(<<>>), Str(<<"a", "@", "b">>)}

\* orderDetails and customerDetails of the body: both objects, or one absent
CustomerDetails == {"both", "noOrderDetails", "noCustomerDetails"}

\* A variant of the test that only catches an absent customerEmail
CustomerEmailMissingAbsent(email) == email.t = "undefined"

\* lines 379, 545, 1556, 1827: if (!customerEmail)
CustomerEmailMissing(email) == email.t = "undefined" \/ email.s = <<>>

\* lines 387-521 (and 553-685, 1564-1802, 1835-2077): the subject and the
\* texts are built outside every try block; they read orderDetails.orderNumber
\* and customerDetails.firstName, which throws a TypeError on an absent object.
ContentThrows(details) == details # "both"

\* What becomes of an exception that leaves an async handler: Express 4 does
\* not look at the promise, so no answer is ever written (whether or not the
\* process survives the unhandled rejection); Express 5 passes it to the
\* error handler, which answers 500.
Unhandled == {"none", "500"}

\* lines 530, 694, 1811, 2086 / 527, 691, 1808, 2083
CustomerMessage(route, sent) ==
  CASE route = "orderConfirmation" \/ route = "agentToCustomer" ->
         IF sent THEN "Confirmation email sent successfully!"
         ELSE "Failed to send confirmation email"
    [] route = "abandonedOrder" ->
         IF sent THEN "Abandoned order follow-up email sent successfully!"
         ELSE "Failed to send abandoned order follow-up email"
    [] route = "advancePayment" ->
         IF sent THEN "Advance payment confirmation email sent successfully!"
         ELSE "Failed to send advance payment confirmation email"

\* A customer-email request arrives: the handler runs up to its answer, to its
\* exception, or to the await of transporter.sendMail.
CustomerStart(p, route, email, details, unhandled) ==
  /\ req[p].pc = "idle"
  /\ LET e0 == [EvNone EXCEPT !.op = "start", !.kind = route,
                              !.email = email, !.details = details]
     IN IF CustomerEmailMissing(email)
        THEN /\ unhandled = "none"
             /\ req' = [req EXCEPT ![p] = Idle]
             /\ ev' = [e0 EXCEPT !.status = 400, !.message = "Customer email is required"]
        ELSE IF ContentThrows(details)
        THEN /\ req' = [req EXCEPT ![p] = Idle]
             /\ ev' = [e0 EXCEPT !.err = "TypeError",
                                 !.status = IF unhandled = "500" THEN 500 ELSE 0]
        ELSE /\ unhandled = "none"
             /\ req' = [req EXCEPT ![p] = [Idle EXCEPT !.pc = "customerMail", !.kind = route,
                                                       !.calls = Called(NoCalls, "mail")]]
             /\ ev' = [e0 EXCEPT !.emails = 1, !.calls = Called(NoCalls, "mail")]
  /\ UNCHANGED <<shiprocketToken, tokenExpiryTime, now, loginCount, callCount,
                 credIssuedAt, loginOk, keySecret, vp, devVerificationCode>>

\* transporter.sendMail settled: lines 525-531.
CustomerDone(p, sent) ==
  /\ req[p].pc = "customerMail"
  /\ req' = [req EXCEPT ![p] = Idle]
  /\ ev' = [EvNone EXCEPT !.op = "customerMail", !.kind = req[p].kind,
                          !.status = IF sent THEN 200 ELSE 500,
                          !.message = CustomerMessage(req[p].kind, sent),
                          !.delivered = sent,
                          !.calls = req[p].calls]
  /\ UNCHANGED <<shiprocketToken, tokenExpiryTime, now, loginCount, callCount,
                 credIssuedAt, loginOk, keySecret, vp, devVerificationCode>>

\* GET /server-metrics, lines 773-802: the handler sets a timer.
MetricsStart(p) ==
  /\ req[p].pc = "idle"
  /\ req' = [req EXCEPT ![p] = [Idle EXCEPT !.pc = "timer", !.kind = "metrics"]]
  /\ ev' = [EvNone EXCEPT !.op = "start", !.kind = "metrics"]
  /\ UNCHANGED <<shiprocketToken, tokenExpiryTime, now, loginCount, callCount,
                 credIssuedAt, loginOk, keySecret, vp, devVerificationCode>>

\* The timer fired: lines 778-801.
MetricsDone(p) ==
  /\ req[p].pc = "timer"
  /\ req' = [req EXCEPT ![p] = Idle]
  /\ ev' = [EvNone EXCEPT !.op = "timer", !.kind = req[p].kind, !.status = 200,
                          !.calls = req[p].calls]
  /\ UNCHANGED <<shiprocketToken, tokenExpiryTime, now, loginCount, callCount,
                 credIssuedAt, loginOk, keySecret, vp, devVerificationCode>>

\* A shipment request with any of the order payloads
OrderRequest(p, kind, body) ==
  /\ kind # "createOrder" => body = ValidBody
  /\ Start(p, kind, body)

\* One request at a time, on every route that calls a vendor, the payment
\* gateway or the mail server.
NextSeq ==
  \/ Tick
  \/ \E kind \in Kinds, body \in OrderPayloads : OrderRequest(1, kind, body)
  \/ \E r \in LoginResponses : LoginDone(1, r, 0)
  \/ \E r \in CallResponses : OrderDone(1, r)
  \/ \E sent \in BOOLEAN : MailDone(1, sent)
  \/ \E r \in CallResponses : TrackDone(1, r)
  \/ \E amount \in Amounts : PayStart(1, amount)
  \/ \E created \in BOOLEAN : PayDone(1, created)
  \/ SendEmail(1)
  \/ \E sent \in BOOLEAN : SendEmailDone(1, sent)
  \/ \E devMode \in DevModes, code \in VerificationCodes : YoutubeStart(1, devMode, code)
  \/ \E r \in YoutubeResponses : YoutubeDone(1, r)
  \/ \E route \in CustomerRoutes, email \in CustomerEmails, details \in CustomerDetails,
        unhandled \in Unhandled : CustomerStart(1, route, email, details, unhandled)
  \/ \E sent \in BOOLEAN : CustomerDone(1, sent)
  \/ MetricsStart(1)
  \/ MetricsDone(1)

SpecSeq == Init /\ [][NextSeq]_vars

\* The YouTube route alone, in a process started with or without a development
\* verification code
InitYoutube ==
  /\ shiprocketToken = Null
  /\ tokenExpiryTime = NoTime
  /\ now = 0
  /\ req = [p \in Procs |-> Idle]
  /\ ev = EvNone
  /\ loginCount = 0
  /\ callCount = 0
  /\ credIssuedAt = NoTime
  /\ loginOk = FALSE
  /\ keySecret = Str(<<"k">>)
  /\ vp = NoVerify
  /\ devVerificationCode \in DevCodes

NextYoutube ==
  \/ Tick
  \/ \E p \in Slots, devMode \in DevModes, code \in VerificationCodes :
       YoutubeStart(p, devMode, code)
  \/ \E p \in Slots, r \in YoutubeResponses : YoutubeDone(p, r)

SpecYoutube == InitYoutube /\ [][NextYoutube]_vars

\* A burst of concurrent callers of getShiprocketToken on a cold cache, through
\* /shiprocket/test-auth: every caller starts before any call has completed.
InFlight == {q \in Procs : req[q].pc # "idle"}

BurstStart(p) ==
  /\ callCount = Cardinality(InFlight)     \* no call of the burst has completed yet
  /\ Start(p, "testAuth", ValidBody)

NextBurst ==
  \/ Tick
  \/ \E p \in Procs : BurstStart(p)
  \/ \E p \in Procs, r \in LoginResponses, delay \in 0..MaxDelay : LoginDone(p, r, delay)

SpecBurst == Init /\ [][NextBurst]_vars

-----------------------------------------------------------------------------
(* Properties of the credential cache *)

\* what a step that called getShiprocketToken saw in the cache
SawCredential == ev.tok0 # Null /\ ev.exp0 # NoTime
AllIdle == \A p \in Procs : req[p].pc = "idle"

\* C1: whenever a credential is cached and now < tokenExpiryTime, a call of
\* getShiprocketToken returns the cached token and sends no login request.
C1_FastPath ==
  (ev.op = "call" /\ SawCredential /\ now < ev.exp0)
    => (ev.ret = ev.tok0 /\ ev.logins = 0 /\ ev.err = NoErr)

C1_Witness ==
  /\ ev.op = "call" /\ SawCredential /\ now < ev.exp0
  /\ now = TokenValidityHours - 1
  /\ ev.ret = ev.tok0 /\ ev.kind = "testAuth"

\* C2: from a cold process the first call logs in exactly once; a later call
\* made while now < expiry logs in zero times; a call made at or after the
\* stored expiry logs in exactly once more.
C2_LoginCount ==
  /\ callCount = 1 => loginCount = 1
  /\ loginCount <= callCount
  /\ ev.op = "call" =>
       ev.logins = (IF ev.exp0 # NoTime /\ now < ev.exp0 THEN 0 ELSE 1)

C2_Witness ==
  /\ callCount = 3 /\ loginCount = 2
  /\ ev.op = "call" /\ ev.exp0 # NoTime /\ now >= ev.exp0 /\ ev.logins = 1

\* C3: a cached credential is used only while now < expiresAt: a token that a
\* call returns or sends to the vendor from the cache has an expiry later than
\* now, a token returned or sent after a login is the stored one with an expiry
\* later than now, and a call at now = expiresAt logs in.
C3_StrictExpiry ==
  /\ (ev.op = "call" /\ (ev.ret # NoTok \/ ev.sent # NoTok))
       => (now < ev.exp0 /\ ev.ret = ev.tok0 /\ ev.sent \in {NoTok, ev.tok0})
  /\ (ev.op = "login" /\ (ev.ret # NoTok \/ ev.sent # NoTok))
       => (now < tokenExpiryTime /\ ev.ret = shiprocketToken
           /\ ev.sent \in {NoTok, shiprocketToken})
  /\ (ev.op = "call" /\ ev.exp0 # NoTime /\ now = ev.exp0)
       => (ev.logins = 1 /\ ev.ret = NoTok /\ ev.sent = NoTok)

C3_Witness ==
  /\ ev.op = "call" /\ SawCredential /\ now = ev.exp0
  /\ ev.kind = "track" /\ ev.logins = 1 /\ ev.sent = NoTok

\* C4: whenever a credential is cached, its expiry is strictly earlier than the
\* vendor's absolute expiry of that token (issuance + 24 hours), whatever the
\* delay between the vendor issuing the token and the login answer being processed.
C4_ExpiryBeforeVendorExpiry ==
  tokenExpiryTime # NoTime
    => tokenExpiryTime < credIssuedAt + VendorLifetimeHours

\* C5: a successful login on a cache miss overwrites the whole credential (token
\* and expiry) and the caller gets exactly the token that login delivered.
C5_Overwrite ==
  (ev.op = "login" /\ ev.resp.net = "ok" /\ ev.resp.json = "ok" /\ ev.resp.ok
     /\ ev.resp.token \in Tokens)
    => /\ shiprocketToken = ev.resp.token
       /\ tokenExpiryTime = now + TokenValidityHours
       /\ ev.ret = ev.resp.token

C5_Witness ==
  /\ ev.op = "login" /\ ev.resp.ok /\ ev.resp.token = "tokB"
  /\ ev.tok0 = "tokA" /\ ev.exp0 # NoTime
  /\ shiprocketToken = "tokB" /\ tokenExpiryTime # ev.exp0 /\ ev.ret = "tokB"

\* C6: a failed login (network error, unparsable answer, answer without a token
\* field) makes getShiprocketToken fail, with the vendor's message when the
\* answer carries one, leaves the cached token and expiry as they were, and the
\* next call that finds no valid credential logs in again.
LoginFailed(r) == r.net = "error" \/ r.json = "bad" \/ r.token = Absent

C7_NonSuccessFails ==
  (ev.op = "login" /\ ev.resp.net = "ok" /\ ~ev.resp.ok)
    => /\ ev.ret = NoTok /\ ev.err # NoErr
       /\ shiprocketToken = ev.tok0 /\ tokenExpiryTime = ev.exp0

\* C8 (as stated): N concurrent callers on a cold cache make between 1 and N
\* login requests, a caller whose login succeeds gets the token of that login,
\* and when the last call completes after at least one success the cache holds a
\* credential with now < expiresAt.
BurstDone == ev.op \in {"call", "login"} /\ AllIdle /\ loginOk

C8_Logins ==
  /\ callCount >= 1 => (loginCount >= 1 /\ loginCount <= callCount)
  /\ (ev.op = "login" /\ ev.err = NoErr) => ev.ret = ev.resp.token

-----------------------------------------------------------------------------
(* Properties of the payment verification *)

\* the hex HMAC of orderId + "|" + paymentId under the configured secret
ClaimedHmac == HmacSha256Hex(keySecret.s, JsStr(vp.orderId) \o <<"|">> \o JsStr(vp.paymentId))
SecretAvailable == keySecret.t = "string"
SignatureMatches ==
  SecretAvailable /\ vp.signature.t = "string" /\ vp.signature.s = ClaimedHmac

\* C9: the verdict is authentic if and only if clientSignature is exactly the
\* hex HMAC of orderId + "|" + paymentId under the secret; every other
\* clientSignature is reported non-authentic.
C9_Verdict ==
  vp.op = "verify" =>
    /\ (vp.status = 200 /\ vp.success) <=> SignatureMatches
    /\ ~SignatureMatches => (~vp.success /\ vp.status # 200)

C9_Witness ==
  /\ vp.op = "verify" /\ vp.status = 200 /\ vp.success /\ SignatureMatches
  /\ vp.orderId = Str(<<"o", "|">>) /\ vp.paymentId = Str(<<"p">>)
  /\ keySecret = Str(<<"s", "k">>)

\* C10: with the three fields present and the secret available, a signature
\* that does not match gives the non-authentic verdict (400, success false),
\* never the internal-error answer (500).
FieldsPresent ==
  vp.orderId.t = "string" /\ vp.paymentId.t = "string" /\ vp.signature.t = "string"

C10_MismatchIsNotAnError ==
  (vp.op = "verify" /\ FieldsPresent /\ SecretAvailable /\ ~SignatureMatches)
    => (vp.status = 400 /\ ~vp.success /\ vp.message = "Payment verification failed")

C10_Witness ==
  /\ vp.op = "verify" /\ FieldsPresent /\ SecretAvailable /\ ~SignatureMatches
  /\ vp.status = 400
  /\ Len(vp.signature.s) = 2 /\ vp.signature.s[2] = ClaimedHmac[2]

\* C11: a verify request that lacks orderId, paymentId or signature, or that is
\* handled while the secret is unavailable, ends in the error outcome (500) and
\* never in an authentic or non-authentic verdict.
Malformed == ~FieldsPresent \/ ~SecretAvailable

C11_MalformedIsError ==
  (vp.op = "verify" /\ Malformed)
    => (vp.status = 500 /\ ~vp.success /\ vp.status \notin {200, 400})

\* C12: every verdict, authentic (200) or non-authentic (400), carries the
\* orderId and paymentId of the request.
IsVerdict == vp.op = "verify" /\ vp.status \in {200, 400}

C12_VerdictEchoes ==
  IsVerdict => (vp.orderOut = vp.orderId /\ vp.paymentOut = vp.paymentId)

\* C13: payment verification is pure, stateless and deterministic: a verify
\* call with the fields of the previous verify call gives the same outcome,
\* whatever the clock, the credential cache and the requests in flight are at
\* the two calls; a verify call sends nothing to a vendor and leaves the
\* credential cache unchanged.
IsVerifyStep ==
  (vp.op = "none" /\ vp'.op = "verify") \/ ev'.op \in {"verify", "reverify"}

-----------------------------------------------------------------------------
(* Properties of the shipment handlers *)

\* C14: a create-order request whose payload lacks billing_pincode is rejected
\* before any network call is attempted (no login fetch, no order fetch, also
\* when the cache is cold or expired) and makes exactly one operator-email
\* attempt: from its first step on it waits for that one email with the
\* answer 400 settled.
HasNoPincode(q) == q.kind = "createOrder" /\ "billing_pincode" \in q.body.falsy

C14_RejectedBeforeNetwork ==
  \A p \in Procs : HasNoPincode(req[p]) =>
    /\ req[p].calls.login = 0 /\ req[p].calls.order = 0
    /\ req[p].pc = "mail" /\ req[p].status = 400 /\ req[p].calls.mail = 1

\* C15: for every payload lacking a mandatory property, or with absent or empty
\* order_items, the order-creation call is never made and the caller gets the
\* validation rejection (400), whatever the cache holds and whatever the login
\* answers.
LacksMandatory(b) == b.falsy # {} \/ b.items \in {"absent", "empty"}

C15_ValidationRejects ==
  \A p \in Procs : (req[p].kind = "createOrder" /\ LacksMandatory(req[p].body)) =>
    /\ req[p].calls.order = 0
    /\ req[p].pc \in {"login", "mail"}
    /\ req[p].pc = "mail" => req[p].status = 400

\* C16 (as stated): a create-order request that succeeds at the vendor makes no
\* operator-email attempt; a request that fails on any path makes exactly one,
\* never two, and is answered with a non-success status, the vendor's own
\* status for a vendor non-success answer.
Answered == ev.kind = "createOrder" /\ ev.status # 0
IsSuccess(st) == st >= 200 /\ st <= 299
VendorAccepted == ev.vendor.net = "ok" /\ IsSuccess(ev.vendor.status)
VendorRefused == ev.vendor.net = "ok" /\ ~IsSuccess(ev.vendor.status)
VendorParsed == ev.vendor.json = "ok"

C16_ExactlyOneEmail ==
  /\ \A p \in Procs : req[p].calls.mail <= 1
  /\ Answered => ev.op \in {"order", "mail"}
  /\ (Answered /\ ev.status = 200) => (ev.op = "order" /\ ev.calls.mail = 0)
  /\ (Answered /\ ev.status # 200) => (ev.calls.mail = 1 /\ ~IsSuccess(ev.status))

C16_AsStated ==
  /\ C16_ExactlyOneEmail
  /\ (ev.op = "order" /\ VendorAccepted) => (ev.status = 200 /\ ev.calls.mail = 0)
  /\ (Answered /\ VendorRefused) => ev.status = ev.vendor.status

\* C16 (amended): the same, where the vendor's answer counts as a success or as
\* a non-success answer only if its body parses as JSON; an answer with a body
\* that does not parse is an exception, answered 500 after one email attempt.
C16_Amended ==
  /\ C16_ExactlyOneEmail
  /\ (ev.op = "order" /\ VendorAccepted /\ VendorParsed)
       => (ev.status = 200 /\ ev.calls.mail = 0)
  /\ (Answered /\ VendorRefused /\ VendorParsed) => ev.status = ev.vendor.status
  /\ (Answered /\ ev.vendor.net = "ok" /\ ~VendorParsed)
       => (ev.status = 500 /\ ev.calls.mail = 1)

C16_Witness ==
  /\ Answered /\ ev.op = "mail" /\ VendorRefused /\ VendorParsed
  /\ ev.status = 422 /\ ev.calls.mail = 1 /\ ev.calls.order = 1 /\ ev.calls.login = 1

\* C17: the operator email is best-effort: sendShiprocketFailureEmail settles
\* with true when the mail was sent and with false when it was not, never with
\* an exception, and the handler answers with the status and the message it
\* had settled before the attempt, whether the mail was sent or not.
C17_BestEffort ==
  /\ [](ev.op = "mail" =>
          /\ ev.mailRet = (IF ev.delivered THEN "true" ELSE "false")
          /\ ev.status # 0)
  /\ [][\A p \in Procs : (req[p].pc = "mail" /\ req'[p] # req[p]) =>
          /\ req'[p].pc = "idle"
          /\ ev'.status = req[p].status
          /\ ev'.message = req[p].message
          /\ ev'.calls = req[p].calls]_vars

C17_Witness ==
  /\ ev.op = "mail" /\ ~ev.delivered /\ ev.mailRet = "false"
  /\ ev.status = 400 /\ ev.message = "Missing required order information"

\* C18: no automatic retries: within one request each external call (vendor
\* login, order creation, tracking, payment-gateway order creation, email send)
\* is attempted at most once, also after it failed.
CallNames == DOMAIN NoCalls

C18_NoRetries ==
  /\ \A p \in Procs : \A x \in CallNames : req[p].calls[x] <= 1
  /\ \A x \in CallNames : ev.calls[x] <= 1
  /\ \A p \in Procs : req[p].pc = "login" => req[p].calls.login = 1
  /\ \A p \in Procs : req[p].pc = "order" => req[p].calls.order = 1
  /\ \A p \in Procs : req[p].pc = "track" => req[p].calls.track = 1
  /\ \A p \in Procs : req[p].pc \in {"mail", "smtp", "customerMail"} => req[p].calls.mail = 1
  /\ \A p \in Procs : req[p].pc = "gateway" => req[p].calls.gateway = 1
  /\ \A p \in Procs : req[p].pc = "youtube" => req[p].calls.youtube = 1

C18_Witness ==
  /\ ev.op = "mail" /\ ev.status = 500 /\ ~ev.delivered
  /\ ev.vendor.net = "error"
  /\ ev.calls = [NoCalls EXCEPT !.login = 1, !.order = 1, !.mail = 1]

\* C19: when the vendor's tracking API answers with a non-success response, the
\* caller of the tracking handler gets a failure answer, never a success one.
C19_TrackingSurfacesFailure ==
  (ev.op = "track" /\ VendorRefused) => ~IsSuccess(ev.status)

\* C20 (as stated): when getShiprocketToken fails inside the auth-test, the
\* order-creation or the tracking handler, the request is answered 500, makes
\* no order or tracking call, and nothing is cached, so that the next shipment
\* request logs in again.
LoginFailedHere == ev.op = "login" /\ ev.err # NoErr

C20_Surfaced ==
  /\ LoginFailedHere =>
       /\ ev.kind \in {"testAuth", "track"} => ev.status = 500
       /\ ev.kind = "createOrder" => (ev.decided = 500 /\ ev.emails = 1)
       /\ ev.calls.order = 0 /\ ev.calls.track = 0 /\ ev.sent = NoTok
  /\ \A p \in Procs : (req[p].pc = "mail" /\ req[p].from = "catch") => req[p].status = 500
  /\ (ev.op = "call" /\ ~CacheValid(ev.tok0, ev.exp0, now)) => ev.logins = 1

C20_AsStated ==
  /\ C20_Surfaced
  /\ LoginFailedHere => ~CacheValid(shiprocketToken, tokenExpiryTime, now)

\* C20 (amended): the same, but the failing request only leaves the cache as it
\* found it: the next shipment request logs in again unless another request
\* has stored a credential that is still valid.
C20_Amended ==
  /\ C20_Surfaced
  /\ LoginFailedHere => (shiprocketToken = ev.tok0 /\ tokenExpiryTime = ev.exp0)

C20_Witness ==
  /\ LoginFailedHere /\ ev.kind = "createOrder" /\ ev.decided = 500
  /\ CacheValid(shiprocketToken, tokenExpiryTime, now)

-----------------------------------------------------------------------------
(* Properties of the payment order handler *)

\* C21: for every accepted amount (a number that is not negative), the amount
\* handed to the payment gateway is amount x 100 rounded to the nearest
\* integer: a whole number of minor units (19.99 gives 1999).
IsPayStart == ev.op = "start" /\ ev.kind = "payOrder"

NearestPaise(a) == (2 * a.n * 100 + a.d) \div (2 * a.d)

C21_MinorUnits ==
  (IsPayStart /\ ev.amount.t = "number" /\ ~ev.amount.neg) =>
    IsInteger(ev.options, NearestPaise(ev.amount))

\* C22: a payment order request whose amount is negative, missing or not finite
\* is rejected, and razorpay.orders.create is never called for it.
BadAmount(a) == a.t \in {"undefined", "huge"} \/ (a.t = "number" /\ a.neg)

C22_BadAmountRejected ==
  (IsPayStart /\ BadAmount(ev.amount)) =>
    (ev.calls.gateway = 0 /\ ev.status >= 400 /\ ev.status <= 499)

-----------------------------------------------------------------------------
(* Frame conditions of the credential cache *)

\* C23: the cached token and expiry are changed by no step other than the
\* success branch of getShiprocketToken: the payment, email, YouTube and
\* metrics handlers leave them alone, and so does every failure path of the
\* shipment handlers.
CacheWritten == shiprocketToken' # shiprocketToken \/ tokenExpiryTime' # tokenExpiryTime

C23_OnlyLoginWrites ==
  [][CacheWritten => (ev'.op = "login" /\ LoginSucceeds(ev'.resp))]_vars

\* a handler outside the shipment routes has failed while a credential was cached
C23_Witness ==
  /\ ev.op = "youtube" /\ ev.status = 500
  /\ shiprocketToken \in Tokens /\ tokenExpiryTime # NoTime

\* C24: a call of getShiprocketToken that is served from the cache leaves the
\* cached token and its expiry as they were: using the credential does not
\* extend its validity window.
ServedFromCacheHere == ev.op = "call" /\ ev.logins = 0

C24_FastPathFrame ==
  ServedFromCacheHere =>
    /\ shiprocketToken = ev.tok0 /\ tokenExpiryTime = ev.exp0
    /\ ev.ret = ev.tok0

\* a credential stored in an earlier hour is served: a renewed window would differ
C24_Witness ==
  /\ ServedFromCacheHere
  /\ ev.ret = shiprocketToken
  /\ tokenExpiryTime < NewExpiry(now)

-----------------------------------------------------------------------------
(* Properties of the customer-email handlers *)

\* C25: a request to the order-confirmation, abandoned-order, agent-to-customer
\* or advance-payment handler whose customerEmail is missing or empty is
\* answered 400, and no email send is attempted for it.
CustomerArrived == ev.op = "start" /\ ev.kind \in CustomerRoutes
NoCustomerEmail == ev.email = Undef \/ ev.email = Str(<<>>)

C25_EmailRequired ==
  (CustomerArrived /\ NoCustomerEmail) =>
    /\ ev.status = 400
    /\ ev.emails = 0 /\ ev.calls.mail = 0
    /\ \A p \in Procs : req[p].pc # "customerMail"

C25_Witness ==
  /\ CustomerArrived /\ ev.kind = "advancePayment"
  /\ ev.email = Str(<<>>) /\ ev.details = "both"
  /\ ev.status = 400

\* C26: every request to a customer-email handler receives a response; a
\* request that has customerEmail but lacks orderDetails or customerDetails is
\* not left without any response.
C26_AlwaysAnswered ==
  (CustomerArrived /\ \A p \in Procs : req[p].pc = "idle") => ev.status # 0

-----------------------------------------------------------------------------
(* The credential cache under overlapping requests *)

\* C27: in every reachable state the cached token and the cached expiry are
\* both unset or both set; no request observes a token without an expiry, and
\* a newly stored token is paired with its own expiry, never with the
\* previous credential's.
BothOrNeither(tok, exp) == (tok = Null) <=> (exp = NoTime)
StoredHere == ev.op = "login" /\ LoginSucceeds(ev.resp)

C27_PairedWrites ==
  /\ BothOrNeither(shiprocketToken, tokenExpiryTime)
  /\ ev.op \in {"call", "login"} => BothOrNeither(ev.tok0, ev.exp0)
  /\ StoredHere =>
       (shiprocketToken = ev.resp.token /\ tokenExpiryTime = NewExpiry(now))

\* a login answer replaces a credential that had not expired, another request
\* being in flight
C27_Witness ==
  /\ StoredHere
  /\ ev.tok0 \in Tokens /\ ev.tok0 # shiprocketToken
  /\ ev.exp0 > now /\ ev.exp0 # tokenExpiryTime
  /\ \E p \in Procs : req[p].pc # "idle"

\* C28: when several logins are in flight at once, each caller receives the
\* token of its own login; every processed success replaces the cached
\* credential by its own token with the expiry computed at that moment, so
\* that after all have completed the cache holds the token of the success
\* processed last; a login that fails leaves the stored credential as it was.
C28_EachStep ==
  /\ (ev.op = "login" /\ ev.err = NoErr) =>
       /\ ev.ret = ev.resp.token
       /\ shiprocketToken = ev.resp.token /\ tokenExpiryTime = NewExpiry(now)
  /\ (ev.op = "login" /\ ev.err # NoErr) =>
       (shiprocketToken = ev.tok0 /\ tokenExpiryTime = ev.exp0)

C28_LastWriterWins ==
  /\ []C28_EachStep
  /\ [][(shiprocketToken' # shiprocketToken \/ tokenExpiryTime' # tokenExpiryTime)
          => (ev'.op = "login" /\ ev'.err = NoErr)]_vars

\* the last of the overlapping logins fails after another one has stored its
\* token: the credential is still there when all have completed
C28_Witness ==
  /\ ev.op = "login" /\ ev.err # NoErr
  /\ ev.tok0 \in Tokens /\ shiprocketToken = ev.tok0
  /\ AllIdle /\ callCount >= 2 /\ loginCount >= 2

\* C29: the token and the tokenExpiresAt of one success response of
\* /shiprocket/test-auth belong to the same stored credential, whatever other
\* requests refresh the cache meanwhile.
AuthTestSucceeded == ev.kind = "testAuth" /\ ev.status = 200

C29_ConsistentCredential ==
  AuthTestSucceeded =>
    /\ ev.ret = shiprocketToken /\ ev.expOut = tokenExpiryTime
    /\ ev.ret \in Tokens /\ ev.expOut # NoTime
    /\ ev.op = "login" => (ev.ret = ev.resp.token /\ ev.expOut = NewExpiry(now))

\* the auth test logged in itself while another request had refreshed the
\* cache with a different credential
C29_Witness ==
  /\ AuthTestSucceeded /\ ev.op = "login"
  /\ ev.tok0 \in Tokens /\ ev.tok0 # ev.ret
  /\ ev.exp0 # ev.expOut

-----------------------------------------------------------------------------
(* The development-mode bypass of the YouTube subscription check *)

\* C30: the bypass is granted only to a request that presents the configured
\* verification code: whatever DEV_VERIFICATION_CODE is, set or not, a request
\* with devMode true and no verificationCode is not answered isSubscribed true
\* by the bypass.
C30_BypassNeedsCode ==
  (ev.op = "start" /\ ev.kind = "youtube" /\ ev.devMode = "true" /\ ev.code = Undef) =>
    ~(ev.bypass /\ ev.subscribed = "true")

====
